---------------------------- MODULE Spec2Model ----------------------------
(***************************************************************************)
(* London Tube Journey Planner (src/app.py): a Streamlit script that is    *)
(* re-run from the top on every user action.  One run with the button      *)
(* pressed is one calculation attempt: validate the two inputs, geocode    *)
(* the origin, geocode the destination, query the TfL journey service,     *)
(* render the results panel and the journey map, with three except         *)
(* handlers around the whole try body.                                     *)
(*                                                                         *)
(* Texts.  An address, a coordinate string and the output of               *)
(* format_duration are sequences of one-character strings.  A message put  *)
(* on the page is a sequence of string pieces read in concatenation; the   *)
(* fixed literals of the source are kept as one piece each.                *)
(*                                                                         *)
(* JSON values are records tagged by "t": "absent" (the key is missing),   *)
(* "None" (null), "str", "int", "list", "dict".                            *)
(***************************************************************************)
EXTENDS Integers, Sequences, FiniteSets, TLC

VARIABLES
    pc,           \* position of the script within the current run
    from_input,   \* st.text_input("Your Location")
    to_input,     \* st.text_input("Office Location")
    calls,        \* HTTP requests issued by the current run, in order
    from_loc,     \* (from_lat, from_lng, from_display) once bound
    to_loc,       \* (to_lat, to_lng, to_display) once bound
    data,         \* the parsed body returned by get_tfl_journey
    journey,      \* data["journeys"][0] once bound
    leg_i,        \* index of the next leg of the for loop
    result_area,  \* elements written into the left-hand container
    right,        \* the map shown in the right-hand column
    minutes,      \* argument of a direct call of format_duration
    formatted     \* what that call returned

vars == <<pc, from_input, to_input, calls, from_loc, to_loc, data, journey, leg_i,
          result_area, right, minutes, formatted>>

----------------------------------------------------------------------------
(* Bounds of the model *)

MaxPad == 1
MaxLegs == 2
MaxMinutes == 130

----------------------------------------------------------------------------
(* Python values *)

Absent == [t |-> "absent"]
None == [t |-> "None"]
PyStr(s) == [t |-> "str", v |-> s]
PyInt(n) == [t |-> "int", v |-> n]
PyList(l) == [t |-> "list", v |-> l]

\* str(n) of an int, as f"{n}" writes it
RECURSIVE Digits(_)
Digits(n) ==
    LET d == <<"0", "1", "2", "3", "4", "5", "6", "7", "8", "9">>[(n % 10) + 1]
    IN  IF n < 10 THEN <<d>> ELSE Digits(n \div 10) \o <<d>>

Str(n) == IF n < 0 THEN <<"-">> \o Digits(0 - n) ELSE Digits(n)

\* str.lower() on the letters the model's addresses are written with
Lower(c) ==
    CASE c = "L" -> "l"
      [] c = "O" -> "o"
      [] c = "N" -> "n"
      [] c = "D" -> "d"
      [] c = "U" -> "u"
      [] c = "K" -> "k"
      [] c = "B" -> "b"
      [] c = "S" -> "s"
      [] c = "C" -> "c"
      [] c = "W" -> "w"
      [] OTHER -> c

lower(s) == [i \in 1..Len(s) |-> Lower(s[i])]

\* sub in s
Contains(s, sub) ==
    \E i \in 1..(Len(s) - Len(sub) + 1) : SubSeq(s, i, i + Len(sub) - 1) = sub

IsDigit(c) == c \in {"0", "1", "2", "3", "4", "5", "6", "7", "8", "9"}

DigitVal(c) ==
    CASE c = "0" -> 0 [] c = "1" -> 1 [] c = "2" -> 2 [] c = "3" -> 3
      [] c = "4" -> 4 [] c = "5" -> 5 [] c = "6" -> 6 [] c = "7" -> 7
      [] c = "8" -> 8 [] c = "9" -> 9

RECURSIVE NatOf(_)
NatOf(s) ==
    IF s = <<>> THEN 0
    ELSE 10 * NatOf(SubSeq(s, 1, Len(s) - 1)) + DigitVal(s[Len(s)])

AllDigits(s) == Len(s) > 0 /\ \A i \in 1..Len(s) : IsDigit(s[i])

\* float(s) for a decimal literal with at most two fractional digits: the
\* value in hundredths of a degree.  FloatOk(s) is FALSE where float(s)
\* raises ValueError.
Unsigned(s) == IF Len(s) > 0 /\ s[1] = "-" THEN Tail(s) ELSE s

DotAt(s) == IF \E i \in 1..Len(s) : s[i] = "."
            THEN CHOOSE i \in 1..Len(s) : s[i] = "." /\ \A j \in 1..(i - 1) : s[j] # "."
            ELSE 0

FloatOk(s) ==
    LET u == Unsigned(s)
        d == DotAt(u)
    IN  IF d = 0 THEN AllDigits(u)
        ELSE /\ AllDigits(SubSeq(u, 1, d - 1))
             /\ AllDigits(SubSeq(u, d + 1, Len(u)))
             /\ Len(u) - d <= 2

float(s) ==
    LET u == Unsigned(s)
        d == DotAt(u)
        whole == IF d = 0 THEN NatOf(u) ELSE NatOf(SubSeq(u, 1, d - 1))
        frac == IF d = 0 THEN <<>> ELSE SubSeq(u, d + 1, Len(u))
        hundredths == IF Len(frac) = 0 THEN 0
                      ELSE IF Len(frac) = 1 THEN 10 * NatOf(frac)
                      ELSE NatOf(frac)
        mag == 100 * whole + hundredths
    IN  IF Len(s) > 0 /\ s[1] = "-" THEN 0 - mag ELSE mag

----------------------------------------------------------------------------
(* Exceptions and the three handlers of the try statement *)

Exc(type, text) == [type |-> type, text |-> text]

NoExc == Exc("none", <<>>)

\* except ValueError: json's JSONDecodeError derives from ValueError
ValueErrorTypes == {"ValueError", "JSONDecodeError"}

\* except requests.HTTPError: ConnectionError and Timeout are siblings of
\* HTTPError under RequestException, not subclasses of it
HTTPErrorTypes == {"HTTPError"}

Warning(text) == [kind |-> "warning", text |-> text]
Error(text) == [kind |-> "error", text |-> text]

ApiErrorPrefix == "API error: "
UnexpectedPrefix == "Something went wrong: "

Handle(e) ==
    IF e.type \in ValueErrorTypes THEN Error(e.text)
    ELSE IF e.type \in HTTPErrorTypes THEN Error(<<ApiErrorPrefix>> \o e.text)
    ELSE Error(<<UnexpectedPrefix>> \o e.text)


Raise(e) == [raised |-> TRUE, exc |-> e, val |-> None]
Return(v) == [raised |-> FALSE, exc |-> NoExc, val |-> v]

----------------------------------------------------------------------------
(* The two external services: what one request can be answered with *)

GEOCODE_TIMEOUT == 10
TFL_TIMEOUT == 15

Invalid == [t |-> "invalid"]

\* a reply that arrives after secs seconds
Reply(status, secs, json) ==
    [kind |-> "reply", status |-> status, secs |-> secs, json |-> json]

\* no reply at all: the connection cannot be made
Refused == [kind |-> "refused", status |-> 0, secs |-> 0, json |-> Invalid]

\* requests.get(..., timeout=t); resp.raise_for_status(); resp.json()
http_get(reply, timeout) ==
    IF reply.kind = "refused"
    THEN Raise(Exc("ConnectionError", <<"Connection refused">>))
    ELSE IF reply.secs > timeout
    THEN Raise(Exc("Timeout", <<"Read timed out. (read timeout=">>
                               \o Str(timeout) \o <<")">>))
    ELSE IF reply.status >= 400 /\ reply.status < 600
    THEN Raise(Exc("HTTPError", Str(reply.status) \o <<" Error for url">>))
    ELSE IF reply.json = Invalid
    THEN Raise(Exc("JSONDecodeError", <<"Expecting value: line 1 column 1 (char 0)">>))
    ELSE Return(reply.json)

----------------------------------------------------------------------------
(* geocode *)

london == <<"l", "o", "n", "d", "o", "n">>

LondonSuffix == <<",", " ", "L", "o", "n", "d", "o", "n", ",", " ", "U", "K">>

\* mutant: the test made on the address as typed, without lower()
geocode_query_case_sensitive(address) ==
    IF Contains(address, london) THEN address ELSE address \o LondonSuffix

geocode_query(address) ==
    IF Contains(lower(address), london) THEN address ELSE address \o LondonSuffix

\* mutant: the message built from the query that was sent
not_found_text_from_query(address, query) ==
    <<"Could not find location: \"">> \o query
        \o <<"\". Try a more specific address.">>

not_found_text(address, query) ==
    <<"Could not find location: \"">> \o address
        \o <<"\". Try a more specific address.">>

Loc(lat, lon, name) == [t |-> "loc", lat |-> lat, lon |-> lon, display_name |-> name]

geocode(address, reply) ==
    LET query == geocode_query(address)
        r == http_get(reply, GEOCODE_TIMEOUT)
    IN  IF r.raised THEN r
        ELSE IF r.val.v = <<>>
        THEN Raise(Exc("ValueError", not_found_text(address, query)))
        ELSE LET c == r.val.v[1]
             IN  IF ~FloatOk(c.lat)
                 THEN Raise(Exc("ValueError",
                          <<"could not convert string to float: ">> \o c.lat))
                 ELSE IF ~FloatOk(c.lon)
                 THEN Raise(Exc("ValueError",
                          <<"could not convert string to float: ">> \o c.lon))
                 ELSE Return(Loc(float(c.lat), float(c.lon), c.display_name))

\* the request as the service sees it, with the argument geocode was given
GeoCall(address, reply) ==
    [svc |-> "geocoder", address |-> address, q |-> geocode_query(address),
     reply |-> reply]

\* candidates the geocoding service may list
Candidate(lat, lon, name) == [lat |-> lat, lon |-> lon, display_name |-> name]

BakerStreet ==
    Candidate(<<"5", "1", ".", "5", "2">>, <<"-", "0", ".", "1", "5">>,
              "Baker Street, Marylebone, London")
CanaryWharf ==
    Candidate(<<"5", "1", ".", "5">>, <<"-", "0", ".", "0", "2">>,
              "Canary Wharf, Tower Hamlets, London")
Unlocated == Candidate(<<"n", "/", "a">>, <<"0">>, "Nowhere")

Candidates == { BakerStreet, CanaryWharf, Unlocated }

RECURSIVE SeqsUpTo(_, _)
SeqsUpTo(S, n) ==
    IF n = 0 THEN {<<>>}
    ELSE LET shorter == SeqsUpTo(S, n - 1)
         IN  shorter \cup {Append(s, x) : s \in {t \in shorter : Len(t) = n - 1}, x \in S}

GeoBodies ==
    {<<>>} \cup {<<c>> : c \in Candidates}
           \cup {<<BakerStreet, CanaryWharf>>, <<CanaryWharf, Unlocated>>}

GeoReplies ==
    {Reply(200, 1, PyList(l)) : l \in GeoBodies}
        \cup {Reply(s, 1, Invalid) : s \in {200, 404, 500}}
        \cup {Reply(200, 12, PyList(<<>>)), Refused}

----------------------------------------------------------------------------
(* get_tfl_journey and the bodies the journey service may answer with *)

get_tfl_journey(from_lat, from_lng, to_lat, to_lng, reply) ==
    http_get(reply, TFL_TIMEOUT)

TflCall(f, t, reply) ==
    [svc |-> "tfl", q |-> <<f.lat, f.lon, t.lat, t.lon>>, reply |-> reply]

Dict(journeys) == [t |-> "dict", journeys |-> journeys]
Journey(duration, legs) == [duration |-> duration, legs |-> legs]
Leg(mode, instruction) == [mode |-> mode, instruction |-> instruction]
ModeDict(name) == [t |-> "dict", name |-> name]
Instr(summary, detailed) == [t |-> "dict", summary |-> summary, detailed |-> detailed]

Modes ==
    { Absent, PyStr("tube"), ModeDict(Absent), ModeDict(PyStr("tube")),
      ModeDict(PyStr("walking")), ModeDict(PyStr("cable-car")) }

Summaries == { Absent, None, PyStr(""), PyStr("Walk to Baker Street Station") }
Detaileds == { Absent, PyStr(""), PyStr("Continue along Marylebone Road for 300 m") }

Instrs == { Absent, None } \cup { Instr(a, b) : a \in Summaries, b \in Detaileds }

Legs ==
    { Leg(m, Absent) : m \in Modes }
        \cup { Leg(ModeDict(PyStr("tube")), i) : i \in Instrs }
        \cup { Leg(ModeDict(PyStr("cable-car")), Instr(PyStr(""), PyStr(""))) }

LegSeqs == SeqsUpTo(Legs, MaxLegs)

WalkLeg == Leg(ModeDict(PyStr("walking")), Instr(PyStr("Walk to Baker Street Station"), Absent))
TubeLeg == Leg(ModeDict(PyStr("tube")), Instr(Absent, PyStr("Jubilee line to Canary Wharf")))

Durations == { Absent, None, PyInt(45), PyInt(90), PyStr("45") }

\* the first entry of the journey list
FirstJourneys ==
    { Journey(PyInt(45), PyList(l)) : l \in LegSeqs }
        \cup { Journey(d, l) : d \in Durations,
                               l \in {Absent, None, PyList(<<>>), PyList(<<WalkLeg, TubeLeg>>)} }

\* what may follow it: entries that are faster and slower than the first
LaterJourneys ==
    { <<Journey(PyInt(20), PyList(<<TubeLeg>>))>>,
      <<Journey(PyInt(125), PyList(<<WalkLeg>>)), Journey(PyInt(30), PyList(<<>>))>> }

JourneyLists ==
    { <<j>> : j \in FirstJourneys }
        \cup { <<Journey(d, PyList(<<WalkLeg, TubeLeg>>))>> \o rest :
                   d \in Durations, rest \in LaterJourneys }

TflBodies ==
    { Dict(Absent), Dict(None), Dict(PyList(<<>>)), PyList(<<>>) }
        \cup { Dict(PyList(js)) : js \in JourneyLists }

TflReplies ==
    {Reply(200, 1, b) : b \in TflBodies}
        \cup {Reply(s, 1, Invalid) : s \in {200, 404, 500}}
        \cup {Reply(200, secs, Dict(PyList(<<Journey(PyInt(45), PyList(<<WalkLeg, TubeLeg>>))>>))) :
                 secs \in {12, 20}}
        \cup {Refused}

\* bool(x), with dict.get's None for a missing key
Truthy(x) ==
    CASE x.t = "absent" -> FALSE
      [] x.t = "None" -> FALSE
      [] x.t = "str" -> x.v # ""
      [] x.t = "list" -> x.v # <<>>
      [] x.t = "int" -> x.v # 0
      [] OTHER -> TRUE

----------------------------------------------------------------------------
(* format_duration and the mode tables *)

\* mutant: the first comparison off by one
format_duration_le(m) ==
    IF m <= 60 THEN Str(m) \o <<" ", "m", "i", "n">>
    ELSE LET h == m \div 60
             r == m % 60
         IN  IF r # 0 THEN Str(h) \o <<"h", " ">> \o Str(r) \o <<"m", "i", "n">>
             ELSE Str(h) \o <<"h">>

format_duration(m) ==
    IF m < 60 THEN Str(m) \o <<" ", "m", "i", "n">>
    ELSE LET h == m \div 60
             r == m % 60
         IN  IF r # 0 THEN Str(h) \o <<"h", " ">> \o Str(r) \o <<"m", "i", "n">>
             ELSE Str(h) \o <<"h">>

MODE_COLOURS ==
    "tube" :> "#0019a8" @@ "walking" :> "#6b7280" @@ "bus" :> "#e53e3e"
        @@ "national-rail" :> "#1e7e34" @@ "overground" :> "#e87722"
        @@ "elizabeth-line" :> "#6950a1" @@ "dlr" :> "#009999"

MODE_LABELS ==
    "tube" :> "Tube" @@ "walking" :> "Walk" @@ "bus" :> "Bus"
        @@ "national-rail" :> "Rail" @@ "overground" :> "Overground"
        @@ "elizabeth-line" :> "Elizabeth" @@ "dlr" :> "DLR"

DEFAULT_COLOUR == "#374151"

\* d.get(k, default)
dict_get(d, k, default) == IF k \in DOMAIN d THEN d[k] ELSE default

----------------------------------------------------------------------------
(* The page *)

PleaseEnterBoth == <<"Please enter both locations.">>

NoMap == [kind |-> "none"]
DefaultMap == [kind |-> "default"]
JourneyMap(f, t) ==
    [kind |-> "journey", markers |-> <<<<f.lat, f.lon>>, <<t.lat, t.lon>>>>]

Resting == {"Idle", "Warned", "Rendered", "Failed"}

\* user inputs the model draws from
FromInputs == { <<>>, <<"B", "a", "k", "e", "r", " ", "S", "t">> }
ToInputs == { <<>>, <<"C", "a", "n", "a", "r", "y", " ", "W", "h", "a", "r", "f",
                     ",", " ", "L", "o", "n", "d", "o", "n">> }

Init ==
    /\ pc = "Idle"
    /\ from_input = <<>>
    /\ to_input = <<>>
    /\ calls = <<>>
    /\ from_loc = None
    /\ to_loc = None
    /\ data = None
    /\ journey = None
    /\ leg_i = 0
    /\ result_area = <<>>
    /\ right = DefaultMap
    /\ minutes = 0
    /\ formatted = <<>>

\* The user edits the text inputs: the script re-runs with calculate = False
\* and takes the else branch (the default map of London).
Edit ==
    /\ pc \in Resting
    /\ \E f \in FromInputs, t \in ToInputs :
          /\ <<f, t>> # <<from_input, to_input>>
          /\ from_input' = f
          /\ to_input' = t
    /\ pc' = "Idle"
    /\ calls' = <<>>
    /\ from_loc' = None
    /\ to_loc' = None
    /\ data' = None
    /\ journey' = None
    /\ leg_i' = 0
    /\ result_area' = <<>>
    /\ right' = DefaultMap
    /\ UNCHANGED <<minutes, formatted>>

\* mutant: the warning only when both inputs are empty
inputs_missing_both == from_input = <<>> /\ to_input = <<>>

\* if not from_input or not to_input
inputs_missing == from_input = <<>> \/ to_input = <<>>

\* The user presses "Calculate Journey": the script re-runs with
\* calculate = True, up to the first HTTP request.
Calculate ==
    /\ pc \in Resting
    /\ calls' = <<>>
    /\ from_loc' = None
    /\ to_loc' = None
    /\ data' = None
    /\ journey' = None
    /\ leg_i' = 0
    /\ right' = NoMap
    /\ IF inputs_missing
       THEN /\ result_area' = <<Warning(PleaseEnterBoth)>>
            /\ pc' = "Warned"
       ELSE /\ result_area' = <<>>
            /\ pc' = "GeocodeFrom"
    /\ UNCHANGED <<from_input, to_input, minutes, formatted>>

\* an exception leaves the try body: the matching handler writes the
\* message into result_area and the run ends
Fail(e, shown) ==
    /\ result_area' = Append(shown, Handle(e))
    /\ pc' = "Failed"

\* mutant: the two geocode lines swapped, the destination looked up first
GeocodeFrom_destination_first ==
    /\ pc = "GeocodeFrom"
    /\ \E reply \in GeoReplies :
          LET r == geocode(to_input, reply)
          IN  /\ calls' = Append(calls, GeoCall(to_input, reply))
              /\ IF r.raised
                 THEN Fail(r.exc, result_area) /\ from_loc' = from_loc
                 ELSE /\ from_loc' = r.val
                      /\ pc' = "GeocodeTo"
                      /\ result_area' = result_area
    /\ UNCHANGED <<from_input, to_input, to_loc, data, journey, leg_i, right,
                   minutes, formatted>>

\* from_lat, from_lng, from_display = geocode(from_input)
GeocodeFrom ==
    /\ pc = "GeocodeFrom"
    /\ \E reply \in GeoReplies :
          LET r == geocode(from_input, reply)
          IN  /\ calls' = Append(calls, GeoCall(from_input, reply))
              /\ IF r.raised
                 THEN Fail(r.exc, result_area) /\ from_loc' = from_loc
                 ELSE /\ from_loc' = r.val
                      /\ pc' = "GeocodeTo"
                      /\ result_area' = result_area
    /\ UNCHANGED <<from_input, to_input, to_loc, data, journey, leg_i, right,
                   minutes, formatted>>

\* to_lat, to_lng, to_display = geocode(to_input)
GeocodeTo ==
    /\ pc = "GeocodeTo"
    /\ \E reply \in GeoReplies :
          LET r == geocode(to_input, reply)
          IN  /\ calls' = Append(calls, GeoCall(to_input, reply))
              /\ IF r.raised
                 THEN Fail(r.exc, result_area) /\ to_loc' = to_loc
                 ELSE /\ to_loc' = r.val
                      /\ pc' = "QueryJourney"
                      /\ result_area' = result_area
    /\ UNCHANGED <<from_input, to_input, from_loc, data, journey, leg_i, right,
                   minutes, formatted>>

\* data = get_tfl_journey(...); if not data.get("journeys"): ...; else:
\* journey = data["journeys"][0]; duration = journey["duration"]
NoJourneyText ==
    <<"No tube journey found. Locations may be outside the TfL network or too close together.">>

has_journeys(d) == Truthy(d.journeys)

\* mutant: the entry with the least duration instead of the first
DurationKey(j) == IF j.duration.t = "int" THEN j.duration.v ELSE 0

chosen_journey_fastest(d) ==
    LET js == d.journeys.v
        best == CHOOSE i \in 1..Len(js) :
                    \A k \in 1..Len(js) :
                        \/ DurationKey(js[i]) < DurationKey(js[k])
                        \/ (DurationKey(js[i]) = DurationKey(js[k]) /\ i <= k)
    IN  js[best]

chosen_journey(d) == d.journeys.v[1]

\* mutant: the test is '"journeys" in data', so an empty list is indexed
select_journey_key_test(d) ==
    IF d.t # "dict"
    THEN Raise(Exc("TypeError", <<"argument of type 'list' is not iterable">>))
    ELSE IF d.journeys = Absent THEN Return(None)
    ELSE IF d.journeys.t # "list"
    THEN Raise(Exc("TypeError", <<"'NoneType' object is not subscriptable">>))
    ELSE IF d.journeys.v = <<>>
    THEN Raise(Exc("IndexError", <<"list index out of range">>))
    ELSE IF chosen_journey(d).duration = Absent
    THEN Raise(Exc("KeyError", <<"'duration'">>))
    ELSE Return(chosen_journey(d))

\* lines 96 to 103 on the parsed body: an exception, no journey (None), or
\* the journey the results panel is built from
select_journey(d) ==
    IF d.t # "dict"
    THEN Raise(Exc("AttributeError", <<"'list' object has no attribute 'get'">>))
    ELSE IF ~has_journeys(d) THEN Return(None)
    ELSE IF chosen_journey(d).duration = Absent
    THEN Raise(Exc("KeyError", <<"'duration'">>))
    ELSE Return(chosen_journey(d))

QueryJourney ==
    /\ pc = "QueryJourney"
    /\ \E reply \in TflReplies :
          LET r == get_tfl_journey(from_loc.lat, from_loc.lon, to_loc.lat, to_loc.lon, reply)
          IN  /\ calls' = Append(calls, TflCall(from_loc, to_loc, reply))
              /\ IF r.raised
                 THEN Fail(r.exc, result_area) /\ UNCHANGED <<data, journey>>
                 ELSE LET j == select_journey(r.val)
                      IN  /\ data' = r.val
                          /\ IF j.raised
                             THEN Fail(j.exc, result_area) /\ journey' = journey
                             ELSE IF j.val = None
                             THEN /\ result_area' = Append(result_area, Error(NoJourneyText))
                                  /\ pc' = "Failed"
                                  /\ journey' = journey
                             ELSE /\ pc' = "Results"
                                  /\ result_area' = result_area
                                  /\ journey' = j.val
    /\ UNCHANGED <<from_input, to_input, from_loc, to_loc, leg_i, right,
                   minutes, formatted>>


Metric(text) == [kind |-> "metric", label |-> "Fastest Journey Time", text |-> text]
Markdown(text) == [kind |-> "markdown", text |-> text]
Caption(text) == [kind |-> "caption", text |-> text]
LegEntry(colour, label, text) ==
    [kind |-> "leg", colour |-> colour, label |-> label, text |-> text]

FromTo == <<"**From:** ">> \o from_input \o <<"  \n**To:** ">> \o to_input

\* with result_area: st.metric(...); st.markdown(From/To); st.markdown("**Steps**");
\* then the for statement evaluates journey["legs"]
Results ==
    /\ pc = "Results"
    /\ IF journey.duration.t # "int"
       THEN /\ Fail(Exc("TypeError",
                        <<"'<' not supported between instances of '">>
                            \o <<journey.duration.t>> \o <<"' and 'int'">>),
                    result_area)
            /\ leg_i' = leg_i
       ELSE LET shown == result_area \o
                           << Metric(format_duration(journey.duration.v)),
                              Markdown(FromTo),
                              Markdown(<<"**Steps**">>) >>
            IN  IF journey.legs = Absent
                THEN Fail(Exc("KeyError", <<"'legs'">>), shown) /\ leg_i' = leg_i
                ELSE IF journey.legs.t # "list"
                THEN /\ Fail(Exc("TypeError", <<"'NoneType' object is not iterable">>), shown)
                     /\ leg_i' = leg_i
                ELSE /\ result_area' = shown
                     /\ leg_i' = 1
                     /\ pc' = "Legs"
    /\ UNCHANGED <<from_input, to_input, calls, from_loc, to_loc, data, journey, right,
                   minutes, formatted>>

\* mode = leg.get("mode", {}).get("name", "walking")
leg_mode(leg) ==
    LET m == IF leg.mode = Absent THEN ModeDict(Absent) ELSE leg.mode
    IN  IF m.t # "dict"
        THEN Raise(Exc("AttributeError", <<"'str' object has no attribute 'get'">>))
        ELSE Return(IF m.name = Absent THEN "walking" ELSE m.name.v)

\* mutant: the detailed instruction preferred to the summary
leg_summary_detailed_first(leg, mode) ==
    LET i == IF leg.instruction = Absent THEN Instr(Absent, Absent) ELSE leg.instruction
    IN  IF i.t # "dict"
        THEN Raise(Exc("AttributeError", <<"'NoneType' object has no attribute 'get'">>))
        ELSE Return(IF Truthy(i.detailed) THEN i.detailed.v
                    ELSE IF Truthy(i.summary) THEN i.summary.v
                    ELSE dict_get(MODE_LABELS, mode, mode))

\* summary = instruction.summary or instruction.detailed or MODE_LABELS.get(mode, mode)
leg_summary(leg, mode) ==
    LET i == IF leg.instruction = Absent THEN Instr(Absent, Absent) ELSE leg.instruction
    IN  IF i.t # "dict"
        THEN Raise(Exc("AttributeError", <<"'NoneType' object has no attribute 'get'">>))
        ELSE Return(IF Truthy(i.summary) THEN i.summary.v
                    ELSE IF Truthy(i.detailed) THEN i.detailed.v
                    ELSE dict_get(MODE_LABELS, mode, mode))

\* one iteration of the for loop
render_leg(leg) ==
    LET m == leg_mode(leg)
    IN  IF m.raised THEN m
        ELSE LET s == leg_summary(leg, m.val)
             IN  IF s.raised THEN s
                 ELSE Return(LegEntry(dict_get(MODE_COLOURS, m.val, DEFAULT_COLOUR),
                                      dict_get(MODE_LABELS, m.val, m.val),
                                      <<s.val>>))

RenderLeg ==
    /\ pc = "Legs"
    /\ leg_i <= Len(journey.legs.v)
    /\ LET r == render_leg(journey.legs.v[leg_i])
       IN  IF r.raised
           THEN Fail(r.exc, result_area) /\ leg_i' = leg_i
           ELSE /\ result_area' = Append(result_area, r.val)
                /\ leg_i' = leg_i + 1
                /\ pc' = pc
    /\ UNCHANGED <<from_input, to_input, calls, from_loc, to_loc, data, journey, right,
                   minutes, formatted>>

\* after the loop: the caption, then the map with its two markers in the
\* right-hand column
Finish ==
    /\ pc = "Legs"
    /\ leg_i > Len(journey.legs.v)
    /\ result_area' = Append(result_area, Caption(<<"Journey data (c) Transport for London">>))
    /\ right' = JourneyMap(from_loc, to_loc)
    /\ pc' = "Rendered"
    /\ UNCHANGED <<from_input, to_input, calls, from_loc, to_loc, data, journey, leg_i,
                   minutes, formatted>>

Next ==
    \/ Edit
    \/ Calculate
    \/ GeocodeFrom
    \/ GeocodeTo
    \/ QueryJourney
    \/ Results
    \/ RenderLeg
    \/ Finish

Spec == Init /\ [][Next]_vars

----------------------------------------------------------------------------
(* geocode on its own: the origin drawn from a set of addresses that write *)
(* "london" in every mix of cases, near misses of it, and padding around   *)

BothCases(c) ==
    CASE c = "l" -> {"l", "L"}
      [] c = "o" -> {"o", "O"}
      [] c = "n" -> {"n", "N"}
      [] c = "d" -> {"d", "D"}

RECURSIVE Variants(_)
Variants(w) ==
    IF w = <<>> THEN {<<>>}
    ELSE {<<c>> \o v : c \in BothCases(Head(w)), v \in Variants(Tail(w))}

NearMisses ==
    { <<"l", "o", "n", "d", "o">>, <<"o", "n", "d", "o", "n">>,
      <<"L", "O", "N", "D", "O">>, <<"l", "o", "n", " ", "d", "o", "n">>,
      <<"n", "o", "d", "n", "o", "l">>, <<"B", "a", "k", "e", "r", " ", "S", "t">> }

PadChars == {"n", "L", " "}

Pads == SeqsUpTo(PadChars, MaxPad)

Addresses ==
    {p \o c \o q : p \in Pads, c \in Variants(london) \cup NearMisses, q \in Pads}

InitGeocode ==
    /\ pc = "Idle"
    /\ from_input \in Addresses
    /\ to_input \in {t \in ToInputs : t # <<>>}
    /\ calls = <<>>
    /\ from_loc = None
    /\ to_loc = None
    /\ data = None
    /\ journey = None
    /\ leg_i = 0
    /\ result_area = <<>>
    /\ right = DefaultMap
    /\ minutes = 0
    /\ formatted = <<>>

NextGeocode == Calculate \/ GeocodeFrom

SpecGeocode == InitGeocode /\ [][NextGeocode]_vars

----------------------------------------------------------------------------
(* format_duration on its own *)

InitDuration ==
    /\ pc = "Idle"
    /\ from_input = <<>>
    /\ to_input = <<>>
    /\ calls = <<>>
    /\ from_loc = None
    /\ to_loc = None
    /\ data = None
    /\ journey = None
    /\ leg_i = 0
    /\ result_area = <<>>
    /\ right = DefaultMap
    /\ minutes \in 0..MaxMinutes
    /\ formatted = <<>>

FormatDuration ==
    /\ formatted = <<>>
    /\ formatted' = format_duration(minutes)
    /\ UNCHANGED <<pc, from_input, to_input, calls, from_loc, to_loc, data,
                   journey, leg_i, result_area, right, minutes>>

NextDuration == FormatDuration

SpecDuration == InitDuration /\ [][NextDuration]_vars

----------------------------------------------------------------------------
(* Properties *)

Last(q) == q[Len(q)]

IsMetric(e) == e.kind = "metric"
IsLegEntry(e) == e.kind = "leg"

Has(area, kind) == \E k \in 1..Len(area) : area[k].kind = kind

\* C1: when the origin or the destination input is empty, a calculation
\* attempt shows the "please enter both locations" warning and issues no
\* request to the geocoder or to the journey service.
C1_MissingInputNoCalls ==
    (Len(from_input) = 0 \/ Len(to_input) = 0) =>
        /\ calls = <<>>
        /\ \/ pc = "Idle"
           \/ pc = "Warned" /\ result_area = <<Warning(<<"Please enter both locations.">>)>>

C1_Witness ==
    /\ pc = "Warned"
    /\ Len(from_input) > 0
    /\ Len(to_input) = 0
    /\ calls = <<>>

\* C2: within one attempt the requests are geocode(origin), then
\* geocode(destination) only after the origin resolved, then the journey
\* service only after both resolved, each at most once; a request that
\* fails is the last of its attempt and the attempt is Failed.
C2_CallOrder ==
    /\ Len(calls) <= 3
    /\ Len(calls) >= 1 =>
          /\ calls[1].svc = "geocoder"
          /\ calls[1].address = from_input
    /\ Len(calls) >= 2 =>
          /\ calls[2].svc = "geocoder"
          /\ calls[2].address = to_input
          /\ ~geocode(from_input, calls[1].reply).raised
          /\ from_loc = geocode(from_input, calls[1].reply).val
    /\ Len(calls) >= 3 =>
          /\ calls[3].svc = "tfl"
          /\ ~geocode(to_input, calls[2].reply).raised
          /\ to_loc = geocode(to_input, calls[2].reply).val
          /\ calls[3].q = <<from_loc.lat, from_loc.lon, to_loc.lat, to_loc.lon>>
    /\ \A i \in 1..Len(calls) :
          LET failed == IF calls[i].svc = "geocoder"
                        THEN geocode(calls[i].address, calls[i].reply).raised
                        ELSE http_get(calls[i].reply, TFL_TIMEOUT).raised
          IN  failed => i = Len(calls) /\ pc = "Failed"

C2_Witness ==
    /\ pc = "Rendered"
    /\ Len(calls) = 3
    /\ calls[1].address # calls[2].address

\* a request that failed below the application: refused, too slow, or not 2xx
TransportFailure(c) ==
    \/ c.reply.kind = "refused"
    \/ c.reply.secs > (IF c.svc = "geocoder" THEN 10 ELSE 15)
    \/ c.reply.status \notin 200..299

\* C3: a failure of the HTTP layer of either service (no connection, the
\* timeout of 10 s or 15 s exceeded, a status outside 2xx) is reported
\* inline with the "API error" message.
C3_TransportErrorIsApiError ==
    (pc = "Failed" /\ Len(calls) > 0 /\ TransportFailure(Last(calls))) =>
        /\ Len(result_area) = 1
        /\ result_area[1].kind = "error"
        /\ Head(result_area[1].text) = "API error: "

\* C4: when both geocodes succeed and the journey list of the response is
\* empty or absent, the attempt reports "no journey found" and renders no
\* metric, no leg entry and no journey map; no journey is bound.
C4_NoJourneyFound ==
    (/\ Len(calls) = 3
     /\ calls[3].reply.secs <= 15
     /\ calls[3].reply.status = 200
     /\ \/ calls[3].reply.json = Dict(Absent)
        \/ calls[3].reply.json = Dict(PyList(<<>>))) =>
        /\ pc = "Failed"
        /\ result_area = <<Error(<<"No tube journey found. Locations may be outside the TfL network or too close together.">>)>>
        /\ right = NoMap
        /\ journey = None

C4_Witness ==
    /\ pc = "Failed"
    /\ Len(calls) = 3
    /\ calls[3].reply = Reply(200, 1, Dict(PyList(<<>>)))

\* the geocoder answered in time with status 200 and a JSON list
Served(reply) ==
    /\ reply.kind = "reply"
    /\ reply.secs <= 10
    /\ reply.status = 200
    /\ reply.json.t = "list"

\* C5: an empty candidate list makes geocode fail with "could not find
\* location" quoting the address as typed, not the query that was sent; a
\* list whose first candidate has numeric coordinates makes it return that
\* candidate's latitude, longitude and display name.
C5_GeocodeResult ==
    (Len(calls) >= 1 /\ Served(calls[1].reply)) =>
        LET body == calls[1].reply.json.v
        IN  /\ body = <<>> =>
                /\ pc = "Failed"
                /\ result_area =
                     <<Error(<<"Could not find location: \"">> \o from_input
                                 \o <<"\". Try a more specific address.">>)>>
                /\ from_loc = None
            /\ (body # <<>> /\ FloatOk(body[1].lat) /\ FloatOk(body[1].lon)) =>
                /\ pc # "Failed"
                /\ from_loc = Loc(float(body[1].lat), float(body[1].lon),
                                  body[1].display_name)
            /\ body = <<BakerStreet, CanaryWharf>> =>
                from_loc = Loc(5152, 0 - 15, "Baker Street, Marylebone, London")

C5_Witness ==
    /\ pc = "Failed"
    /\ Len(calls) = 1
    /\ Served(calls[1].reply)
    /\ calls[1].reply.json.v = <<>>
    /\ calls[1].q # from_input

\* some six consecutive characters spell london, each in either case
MentionsLondon(a) ==
    \E i \in 1..(Len(a) - 5) :
        \A k \in 1..6 : a[i + k - 1] \in BothCases(<<"l", "o", "n", "d", "o", "n">>[k])

\* C6: the query sent to the geocoder is the address followed by
\* ", London, UK" when the address does not contain "london" in any letter
\* case, and the address unchanged when it does.
C6_QuerySuffix ==
    \A i \in 1..Len(calls) :
        calls[i].svc = "geocoder" =>
            calls[i].q = IF MentionsLondon(calls[i].address)
                         THEN calls[i].address
                         ELSE calls[i].address
                                  \o <<",", " ", "L", "o", "n", "d", "o", "n", ",", " ", "U", "K">>

C6_Witness ==
    /\ Len(calls) = 1
    /\ MentionsLondon(from_input)
    /\ ~Contains(from_input, <<"l", "o", "n", "d", "o", "n">>)
    /\ calls[1].q = from_input

\* C7: format_duration(n) is "<n> min" below 60, "<n div 60>h" for a
\* multiple of 60 and "<n div 60>h <n mod 60>min" otherwise; 0, 59, 60, 90
\* and 125 give "0 min", "59 min", "1h", "1h 30min" and "2h 5min".
C7_FormatDuration ==
    formatted # <<>> =>
        /\ minutes < 60 => formatted = Str(minutes) \o <<" ", "m", "i", "n">>
        /\ (minutes >= 60 /\ minutes % 60 = 0) =>
              formatted = Str(minutes \div 60) \o <<"h">>
        /\ (minutes >= 60 /\ minutes % 60 > 0) =>
              formatted = Str(minutes \div 60) \o <<"h", " ">>
                              \o Str(minutes % 60) \o <<"m", "i", "n">>
        /\ minutes = 0 => formatted = <<"0", " ", "m", "i", "n">>
        /\ minutes = 59 => formatted = <<"5", "9", " ", "m", "i", "n">>
        /\ minutes = 60 => formatted = <<"1", "h">>
        /\ minutes = 90 => formatted = <<"1", "h", " ", "3", "0", "m", "i", "n">>
        /\ minutes = 125 => formatted = <<"2", "h", " ", "5", "m", "i", "n">>

C7_Witness ==
    /\ minutes = 125
    /\ formatted = <<"2", "h", " ", "5", "m", "i", "n">>

\* C8: what is rendered comes from the first entry of the journey list,
\* whatever the durations of the others: the metric is that entry's
\* duration and the leg entries are its legs, one each, in their order.
C8_FirstJourneyRendered ==
    Has(result_area, "metric") =>
        LET first == data.journeys.v[1]
            metrics == SelectSeq(result_area, IsMetric)
            entries == SelectSeq(result_area, IsLegEntry)
        IN  /\ Len(metrics) = 1
            /\ metrics[1].text = format_duration(first.duration.v)
            /\ IF first.legs.t = "list"
               THEN /\ Len(entries) <= Len(first.legs.v)
                    /\ \A k \in 1..Len(entries) :
                          entries[k] = render_leg(first.legs.v[k]).val
                    /\ pc = "Rendered" => Len(entries) = Len(first.legs.v)
               ELSE entries = <<>> /\ pc # "Rendered"

C8_Witness ==
    /\ pc = "Rendered"
    /\ Len(data.journeys.v) >= 2
    /\ data.journeys.v[1].duration.v > data.journeys.v[2].duration.v
    /\ Len(SelectSeq(result_area, IsLegEntry)) = 2

\* C9: how a rendered leg entry is styled and worded
Present(x) == x.t = "str"

TableStyle(entry, mode) ==
    /\ entry.colour = IF mode \in DOMAIN MODE_COLOURS THEN MODE_COLOURS[mode] ELSE "#374151"
    /\ entry.label = IF mode \in DOMAIN MODE_LABELS THEN MODE_LABELS[mode] ELSE mode

InstructionOf(leg) ==
    IF leg.instruction = Absent THEN Instr(Absent, Absent) ELSE leg.instruction

RenderedLegs ==
    LET entries == SelectSeq(result_area, IsLegEntry)
    IN  {<<entries[k], data.journeys.v[1].legs.v[k]>> : k \in 1..Len(entries)}

\* C9 (as claimed): the text of a leg is its summary when the summary is
\* present, otherwise its detailed instruction when that is present,
\* otherwise the label of its mode; the badge takes the style of the mode
\* table, or the default style for a mode not in it.
C9_SummaryWhenPresent ==
    \A p \in RenderedLegs :
        LET entry == p[1]
            ins == InstructionOf(p[2])
            mode == leg_mode(p[2]).val
        IN  /\ TableStyle(entry, mode)
            /\ entry.text =
                 IF Present(ins.summary) THEN <<ins.summary.v>>
                 ELSE IF Present(ins.detailed) THEN <<ins.detailed.v>>
                 ELSE <<entry.label>>

\* C9 (amended): the text of a leg is its summary when the summary is
\* present and not empty, otherwise its detailed instruction when that is
\* present and not empty, otherwise the label of its mode; the badge takes
\* the style of the mode table, or the default style for a mode not in it.
NonEmpty(x) == x.t = "str" /\ x.v # ""

C9_SummaryWhenNonEmpty ==
    \A p \in RenderedLegs :
        LET entry == p[1]
            ins == InstructionOf(p[2])
            mode == leg_mode(p[2]).val
        IN  /\ TableStyle(entry, mode)
            /\ entry.text =
                 IF NonEmpty(ins.summary) THEN <<ins.summary.v>>
                 ELSE IF NonEmpty(ins.detailed) THEN <<ins.detailed.v>>
                 ELSE <<entry.label>>

C9_Witness ==
    \E p \in RenderedLegs :
        /\ p[2].instruction = Instr(PyStr(""), PyStr(""))
        /\ p[1].text = <<"cable-car">>
        /\ p[1].colour = "#374151"

\* C10: an attempt ends Rendered or Failed; once an error message is shown
\* for an attempt, no metric, no leg entry and no journey map of that
\* attempt is on the page.
C10_NoPartialRender ==
    /\ pc = "Rendered" => ~Has(result_area, "error")
    /\ Has(result_area, "error") =>
          /\ pc = "Failed"
          /\ ~Has(result_area, "metric")
          /\ ~Has(result_area, "leg")
          /\ right.kind # "journey"

============================================================================
